---------------------------- MODULE Spec2Model ----------------------------
(***************************************************************************)
(* Verification model of the global_liquidity pipeline.                    *)
(*                                                                         *)
(*   SpecAlign  : 02_build_net_liquidity.py main(): the Series Normalizer  *)
(*                (_read_series) and the Multi-Series Aligner (outer merge *)
(*                on date, sort, forward-fill, dropna), the same           *)
(*                statements as 03_build_net_liquidity_fixed_units.py      *)
(*                lines 106-109 and 04_build_global_cb_assets_usd.py       *)
(*                lines 48-59.                                             *)
(*   SpecSmooth : 07_train_liquidity_regime_hmm.py _smooth_transmat, as a  *)
(*                pure function of a raw transition matrix.                *)
(*   SpecFit    : 07_train_liquidity_regime_hmm.py _fit_best_hmm, the      *)
(*                multi-restart search.                                    *)
(*   SpecRegime : main() of 06_train_liquidity_regime_gmm.py and of        *)
(*                07_train_liquidity_regime_hmm.py.                        *)
(*   SpecRelabel: _order_states_by_expansiveness applied twice.            *)
(*   SpecMask   : the same main() functions on FeatureTables with missing  *)
(*                features.                                                *)
(*   SpecPct    : 05_build_gli_master.py pct_change columns.               *)
(*   SpecRolling: 05_build_gli_master.py zscore and pct_rank.              *)
(*   SpecRead   : 03_build_net_liquidity_fixed_units.py _read_series on    *)
(*                one bronze file, and the main() that called it.          *)
(*   SpecUnits  : 03_build_net_liquidity_fixed_units.py                    *)
(*                _to_millions_multiplier.                                 *)
(*   SpecFx     : 04_build_global_cb_assets_usd.py main().                 *)
(*   SpecMaster : 05_build_gli_master.py main(), the inner join of the     *)
(*                two silver tables and the features added to it.          *)
(*   SpecWeekly : run_weekly_update.py main() and run_step.                *)
(*   SpecIngest : run_ingest_incremental.py main() for one FRED series,    *)
(*                run after run.                                           *)
(*                                                                         *)
(* Every specification leaves the variables of the others at their idle    *)
(* values.  Probabilities and scores are exact rationals [n, d].           *)
(*                                                                         *)
(* Numbers are integers.  A missing value (NaN / NaT) is the sentinel NaN, *)
(* which lies outside every value range of the model.                      *)
(***************************************************************************)
EXTENDS Integers, Sequences, FiniteSets, TLC

\* ------------------------------------------------------------------ bounds
\* Timestamps of raw observations are 1..MaxDate.
MaxDate == 3
\* Total number of raw rows over the three bronze files.
MaxObs == 4

\* ------------------------------------------------------- missing / garbage
\* pandas' missing value (NaN for numbers, NaT for timestamps).
NaN == -999999
\* A raw cell that neither pd.to_datetime nor pd.to_numeric can convert.
Garbage == -1

VARIABLES
    \* 02_build_net_liquidity.py main()
    pc,        \* position of main()
    bronze,    \* the bronze parquet files: series -> sequence of raw rows
    frames,    \* walcl, rrp, tga as returned by _read_series
    df,        \* the data frame main() builds
    \* _smooth_transmat(model, eps)
    sm_pc,     \* "start" before the call, "smoothed" after it
    sm_raw,    \* model.transmat_ when the call is made
    sm_model,  \* model.transmat_
    \* _fit_best_hmm(Xs, n_components, n_tries, min_covar, trans_smooth)
    fit_pc,      \* "loop" | "returned"
    seed,        \* the loop variable
    best_model,  \* the best model so far, or None
    best_score,  \* its score, or NegInf
    constructed, \* the GaussianHMM(...) constructor calls made so far
    first_seen,  \* score value -> the first seed that scored it (0: none yet)
    tie_seen,    \* a later restart scored exactly the best score so far
    returned,    \* the model returned, or None
    \* main() of 06_train_liquidity_regime_gmm.py / 07_train_liquidity_regime_hmm.py
    rg_pc,         \* position of main()
    backend,       \* "gmm" (06) or "hmm" (07)
    gli_master,    \* the FeatureTable read from gli_master.parquet
    df2,           \* the rows with every selected feature present
    hmm,           \* the model _fit_best_hmm returned (07)
    hidden_states, \* regimes (06) / hidden_states (07): the raw state of each row
    post,          \* probs (06) / post (07): the raw posterior of each row
    mapping,       \* raw state -> canonical label
    regime,        \* df2["regime"]
    p_regime,      \* the emitted probability columns of each row
    trans_regime,  \* the transition matrix in canonical order (07)
    out_parquet,   \* the regime table written, or None
    out_trans,     \* the transition matrix written, or None (07)
    mapping2,      \* the mapping of a second relabeling (SpecRelabel)
    \* 05_build_gli_master.py: pct_change, zscore, pct_rank of one column
    ft_pc,     \* "start" | "done"
    ft_s,      \* the input column s
    ft_s2,     \* a second input column, of the same length and the same first row
    ft_cols,   \* the columns computed from ft_s
    ft_cols2,  \* the columns computed from ft_s2
    \* 03_build_net_liquidity_fixed_units.py _read_series / 04 _read, and its caller
    rd_pc,      \* "start" | "returned" | "exit" | "written"
    rd_path,    \* the path of the bronze file
    rd_columns, \* df.columns of the file
    rd_rows,    \* the rows of the file
    rd_frame,   \* the frame returned, or None
    rd_exit,    \* the SystemExit raised (file and columns its message names), or None
    \* 03_build_net_liquidity_fixed_units.py _to_millions_multiplier(units)
    un_pc,      \* "start" | "returned"
    un_units,   \* the argument: None or a string
    un_mult,    \* the multiplier returned, or None
    un_stdout,  \* the warnings printed
    \* 04_build_global_cb_assets_usd.py main()
    fx_pc,      \* position of main()
    fx_bronze,  \* the five bronze files
    fx_df,      \* the data frame main() builds
    \* 05_build_gli_master.py main()
    ms_pc,      \* position of main()
    ms_net,     \* net_liquidity_usa_fixed.parquet, as written by 03
    ms_gcb,     \* global_cb_assets_usd.parquet, as written by 04
    ms_df,      \* the data frame main() builds
    ms_out,     \* gli_master.parquet as written, or None
    \* run_weekly_update.py main() / run_step(cmd)
    wk_pc,      \* "loop" | "running" | "exit" | "done"
    wk_started, \* the commands started so far, in order
    wk_codes,   \* the return codes of the commands that finished, in order
    wk_exit,    \* the code of the SystemExit raised, or None
    wk_stdout,  \* TRUE when the success message has been printed
    \* run_ingest_incremental.py main(), the FRED loop for one series, run after run
    ig_pc,      \* "idle" between runs | "fetched" inside a run
    ig_runs,    \* number of runs started
    ig_file,    \* the bronze file of the series: None when absent, or its rows
    ig_prev,    \* the file as it was when the current / last run started
    ig_start,   \* the start requested from the API in the current / last run
    ig_new      \* df_new of the current / last run

alignVars == <<pc, bronze, frames, df>>
smoothVars == <<sm_pc, sm_raw, sm_model>>
fitVars == <<fit_pc, seed, best_model, best_score, constructed, first_seen, tie_seen, returned>>

regimeVars == <<rg_pc, backend, gli_master, df2, hmm, hidden_states, post, mapping, regime,
                p_regime, trans_regime, out_parquet, out_trans, mapping2>>

featureVars == <<ft_pc, ft_s, ft_s2, ft_cols, ft_cols2>>
readVars == <<rd_pc, rd_path, rd_columns, rd_rows, rd_frame, rd_exit>>
unitsVars == <<un_pc, un_units, un_mult, un_stdout>>
fxVars == <<fx_pc, fx_bronze, fx_df>>
masterVars == <<ms_pc, ms_net, ms_gcb, ms_df, ms_out>>
weeklyVars == <<wk_pc, wk_started, wk_codes, wk_exit, wk_stdout>>
ingestVars == <<ig_pc, ig_runs, ig_file, ig_prev, ig_start, ig_new>>
opsVars == <<masterVars, weeklyVars, ingestVars>>
stageVars == <<featureVars, readVars, unitsVars, fxVars>>

vars == <<alignVars, smoothVars, fitVars, regimeVars, stageVars, opsVars>>
nonAlignVars == <<smoothVars, fitVars, regimeVars, stageVars, opsVars>>
nonSmoothVars == <<alignVars, fitVars, regimeVars, stageVars, opsVars>>
nonFitVars == <<alignVars, smoothVars, regimeVars, stageVars, opsVars>>
nonRegimeVars == <<alignVars, smoothVars, fitVars, stageVars, opsVars>>
engineVars == <<alignVars, smoothVars, fitVars, regimeVars>>
nonFeatureVars == <<engineVars, readVars, unitsVars, fxVars, opsVars>>
nonReadVars == <<engineVars, featureVars, unitsVars, fxVars, opsVars>>
nonUnitsVars == <<engineVars, featureVars, readVars, fxVars, opsVars>>
nonFxVars == <<engineVars, featureVars, readVars, unitsVars, opsVars>>
nonOpsVars == <<engineVars, stageVars>>
nonMasterVars == <<nonOpsVars, weeklyVars, ingestVars>>
nonWeeklyVars == <<nonOpsVars, masterVars, ingestVars>>
nonIngestVars == <<nonOpsVars, masterVars, weeklyVars>>

\* Python's None
None == [py_none |-> TRUE]

\* The idle values of each group of variables.
IdleAlign == pc = "idle" /\ bronze = <<>> /\ frames = <<>> /\ df = <<>>
IdleSmooth == sm_pc = "idle" /\ sm_raw = <<>> /\ sm_model = <<>>
IdleFit ==
    /\ fit_pc = "idle" /\ seed = 0 /\ best_model = None /\ best_score = 0
    /\ constructed = <<>> /\ first_seen = <<>> /\ tie_seen = FALSE /\ returned = None
IdleRegime ==
    /\ rg_pc = "idle" /\ backend = "none" /\ gli_master = <<>> /\ df2 = <<>> /\ hmm = None
    /\ hidden_states = <<>> /\ post = <<>> /\ mapping = <<>> /\ regime = <<>>
    /\ p_regime = <<>> /\ trans_regime = <<>> /\ out_parquet = None /\ out_trans = None
    /\ mapping2 = <<>>

IdleFeature ==
    /\ ft_pc = "idle" /\ ft_s = <<>> /\ ft_s2 = <<>>
    /\ ft_cols = <<>> /\ ft_cols2 = <<>>
IdleRead ==
    /\ rd_pc = "idle" /\ rd_path = "" /\ rd_columns = {} /\ rd_rows = <<>>
    /\ rd_frame = None /\ rd_exit = None
IdleUnits == un_pc = "idle" /\ un_units = None /\ un_mult = None /\ un_stdout = <<>>
IdleFx == fx_pc = "idle" /\ fx_bronze = <<>> /\ fx_df = <<>>
IdleMaster ==
    /\ ms_pc = "idle" /\ ms_net = <<>> /\ ms_gcb = <<>> /\ ms_df = <<>> /\ ms_out = None
IdleWeekly ==
    /\ wk_pc = "idle" /\ wk_started = <<>> /\ wk_codes = <<>> /\ wk_exit = None
    /\ wk_stdout = FALSE
IdleIngest ==
    /\ ig_pc = "off" /\ ig_runs = 0 /\ ig_file = None /\ ig_prev = None
    /\ ig_start = None /\ ig_new = None
IdleOps == IdleMaster /\ IdleWeekly /\ IdleIngest
IdleStages == IdleFeature /\ IdleRead /\ IdleUnits /\ IdleFx
IdleEngine == IdleAlign /\ IdleSmooth /\ IdleFit /\ IdleRegime

Series == {"WALCL", "RRPONTSYD", "WTREGEN"}

\* ------------------------------------------------------------- helpers
Max(S) == CHOOSE x \in S : \A y \in S : y <= x
Min(S) == CHOOSE x \in S : \A y \in S : x <= y

\* Every permutation of `rows` whose `date` column is non-decreasing: the
\* results sort_values("date") can produce (the default quicksort is not
\* stable, so rows with equal dates may come out in any order).
RECURSIVE SortedOrders(_, _)
SortedOrders(rows, idx) ==
    IF idx = {} THEN {<<>>}
    ELSE LET m == Min({rows[i].date : i \in idx})
             firsts == {i \in idx : rows[i].date = m}
         IN UNION {{<<rows[i]>> \o t : t \in SortedOrders(rows, idx \ {i})} : i \in firsts}

sort_values(rows) == SortedOrders(rows, 1..Len(rows))

\* ------------------------------------------------- Series Normalizer
\* pd.to_datetime(..., utc=True, errors="coerce")
to_datetime(x) == IF x = Garbage THEN NaN ELSE x
\* pd.to_numeric(..., errors="coerce")
to_numeric(x) == IF x = Garbage THEN NaN ELSE x

\* The rows of a raw file after coercion and dropna(subset=["date","value"]).
Coerced(raw) ==
    LET c == [i \in 1..Len(raw) |->
                 [date |-> to_datetime(raw[i].date), value |-> to_numeric(raw[i].value)]]
    IN SelectSeq(c, LAMBDA r : r.date # NaN /\ r.value # NaN)

\* _read_series(path, series_id): the set of frames it can return.
_read_series(raw) == sort_values(Coerced(raw))

\* ------------------------------------------------- Multi-Series Aligner
Dates(f) == {f[i].date : i \in 1..Len(f)}

\* The rows of one key of an outer merge: the cartesian product of the rows
\* of both sides that carry the key, left-major; a side without the key
\* contributes missing values.
RECURSIVE Flatten(_)
Flatten(ss) == IF ss = <<>> THEN <<>> ELSE Head(ss) \o Flatten(Tail(ss))

RECURSIVE SetToSortedSeq(_)
SetToSortedSeq(S) ==
    IF S = {} THEN <<>> ELSE LET m == Min(S) IN <<m>> \o SetToSortedSeq(S \ {m})

\* left.merge(right, on="date", how="outer"): `lcols` and `rcols` are the
\* value columns of the two sides.
merge_outer(left, right, lcols, rcols) ==
    LET keys == SetToSortedSeq(Dates(left) \cup Dates(right))
        lna == [c \in lcols |-> NaN]
        rna == [c \in rcols |-> NaN]
        strip(r, cols) == [c \in cols |-> r[c]]
        rowsOf(k) ==
            LET L == SelectSeq(left, LAMBDA r : r.date = k)
                R == SelectSeq(right, LAMBDA r : r.date = k)
                Ls == IF L = <<>> THEN <<lna>> ELSE [i \in 1..Len(L) |-> strip(L[i], lcols)]
                Rs == IF R = <<>> THEN <<rna>> ELSE [i \in 1..Len(R) |-> strip(R[i], rcols)]
            IN Flatten([i \in 1..Len(Ls) |->
                          [j \in 1..Len(Rs) |-> [date |-> k] @@ Ls[i] @@ Rs[j]]])
    IN Flatten([n \in 1..Len(keys) |-> rowsOf(keys[n])])

\* df.rename(columns={"value": series_id})
rename(f, s) == [i \in 1..Len(f) |-> [date |-> f[i].date] @@ (s :> f[i].value)]

\* walcl.merge(rrp, on="date", how="outer").merge(tga, on="date", how="outer")
MergeAll(fr) ==
    merge_outer(
        merge_outer(rename(fr["WALCL"], "WALCL"), rename(fr["RRPONTSYD"], "RRPONTSYD"),
                    {"WALCL"}, {"RRPONTSYD"}),
        rename(fr["WTREGEN"], "WTREGEN"),
        {"WALCL", "RRPONTSYD"}, {"WTREGEN"})

\* Mutant of ffill: fills backward (bfill), from the next non-missing value.
ffill_backward(d) ==
    [i \in 1..Len(d) |->
        [date |-> d[i].date] @@
        [c \in Series |->
            LET known == {j \in i..Len(d) : d[j][c] # NaN}
            IN IF known = {} THEN NaN ELSE d[Min(known)][c]]]

\* Mutant of ffill: the fill is left out.
ffill_none(d) == [i \in 1..Len(d) |-> [date |-> d[i].date] @@ [c \in Series |-> d[i][c]]]

\* df[cols] = df[cols].ffill(): every missing cell takes the last non-missing
\* value above it in the same column.
ffill(d) ==
    [i \in 1..Len(d) |->
        [date |-> d[i].date] @@
        [c \in Series |->
            LET known == {j \in 1..i : d[j][c] # NaN}
            IN IF known = {} THEN NaN ELSE d[Max(known)][c]]]

\* df.dropna(subset=[...]): keep the rows with no missing column.
dropna(d) == SelectSeq(d, LAMBDA r : \A c \in Series : r[c] # NaN)

\* net_liquidity_usa = WALCL - RRPONTSYD - WTREGEN, and its diff(1), diff(7).
diff(col, k) == [i \in 1..Len(col) |-> IF i <= k THEN NaN ELSE col[i] - col[i - k]]

derive(d) ==
    LET net == [i \in 1..Len(d) |-> d[i]["WALCL"] - d[i]["RRPONTSYD"] - d[i]["WTREGEN"]]
        d1 == diff(net, 1)
        w1 == diff(net, 7)
    IN [i \in 1..Len(d) |->
          d[i] @@ [net_liquidity_usa |-> net[i],
                   net_liquidity_usa_d1 |-> d1[i],
                   net_liquidity_usa_w1 |-> w1[i]]]

\* ------------------------------------------------------------ raw inputs
\* The i-th row of a bronze file: a well-formed row of any timestamp, or a row
\* whose cells cannot be converted.  The value of a well-formed row is its row
\* number i, so that the observations of one file are told apart by their
\* values.
RawRows(i) ==
    {[date |-> d, value |-> i] : d \in 1..MaxDate}
        \cup {[date |-> Garbage, value |-> Garbage]}

RawFiles(n) == {f \in [1..n -> UNION {RawRows(i) : i \in 1..n}] :
                  \A i \in 1..n : f[i] \in RawRows(i)}

NoFrames == [s \in Series |-> <<>>]

InitAlign ==
    /\ pc = "start"
    /\ \E n \in [Series -> 0..MaxObs] :
          /\ n["WALCL"] + n["RRPONTSYD"] + n["WTREGEN"] <= MaxObs
          /\ bronze \in [WALCL : RawFiles(n["WALCL"]),
                         RRPONTSYD : RawFiles(n["RRPONTSYD"]),
                         WTREGEN : RawFiles(n["WTREGEN"])]
    /\ frames = NoFrames
    /\ df = <<>>
    /\ IdleSmooth /\ IdleFit /\ IdleRegime /\ IdleStages /\ IdleOps

\* lines 35-37: the three _read_series calls
ReadSeries ==
    /\ pc = "start"
    /\ \E w \in _read_series(bronze["WALCL"]) :
       \E r \in _read_series(bronze["RRPONTSYD"]) :
       \E t \in _read_series(bronze["WTREGEN"]) :
          frames' = [WALCL |-> w, RRPONTSYD |-> r, WTREGEN |-> t]
    /\ pc' = "read"
    /\ UNCHANGED <<bronze, df, nonAlignVars>>

\* lines 40-41: outer merges, then sort_values("date")
MergeSort ==
    /\ pc = "read"
    /\ df' \in sort_values(MergeAll(frames))
    /\ pc' = "merged"
    /\ UNCHANGED <<bronze, frames, nonAlignVars>>

\* line 44: forward fill
ForwardFill ==
    /\ pc = "merged"
    /\ df' = ffill(df)
    /\ pc' = "filled"
    /\ UNCHANGED <<bronze, frames, nonAlignVars>>

\* line 47: drop the rows that still miss a column
DropLeading ==
    /\ pc = "filled"
    /\ df' = dropna(df)
    /\ pc' = "aligned"
    /\ UNCHANGED <<bronze, frames, nonAlignVars>>

\* lines 50-60: net liquidity, its differences, and the write
Derive ==
    /\ pc = "aligned"
    /\ df' = derive(df)
    /\ pc' = "done"
    /\ UNCHANGED <<bronze, frames, nonAlignVars>>

NextAlign == ReadSeries \/ MergeSort \/ ForwardFill \/ DropLeading \/ Derive

SpecAlign == InitAlign /\ [][NextAlign]_vars


\* ======================================================================
\* Exact rationals
\* ======================================================================
RECURSIVE GCD(_, _)
GCD(a, b) == IF b = 0 THEN a ELSE GCD(b, a % b)
Abs(x) == IF x < 0 THEN -x ELSE x
\* n/d in lowest terms, d > 0
Rat(n, d) ==
    LET g == GCD(Abs(n), Abs(d))
        sgn == IF d < 0 THEN -1 ELSE 1
    IN [n |-> sgn * (n \div g), d |-> sgn * (d \div g)]
RAdd(x, y) == Rat(x.n * y.d + y.n * x.d, x.d * y.d)
RDiv(x, y) == Rat(x.n * y.d, x.d * y.n)
RLe(x, y) == x.n * y.d <= y.n * x.d
RZero == Rat(0, 1)
ROne == Rat(1, 1)
RECURSIVE RSum(_, _)
\* the sum of f[x] over x in S
RSum(f, S) ==
    IF S = {} THEN RZero
    ELSE LET x == CHOOSE y \in S : TRUE IN RAdd(f[x], RSum(f, S \ {x}))

\* ======================================================================
\* 07_train_liquidity_regime_hmm.py: the sequential backend
\* ======================================================================
\* n_components (main passes 3; 06 passes n_components=3 as well)
K == 3
States == 0..(K - 1)
\* n_tries, as main passes it
n_tries == 10
\* the first seed of the search
FirstSeed == 42
\* trans_smooth = 1e-3, as main passes it: EpsNum / EpsDen
EpsNum == 1
EpsDen == 1000
eps == Rat(EpsNum, EpsDen)

\* Raw transition probabilities are multiples of 1/TDen.
TDen == 2
\* The log-likelihood of a fit (model.score) is one of 1..MaxScore.
MaxScore == 2

\* The rows a raw transition matrix can have: probabilities k/TDen summing to 1.
StochasticRows ==
    {r \in [States -> {Rat(k, TDen) : k \in 0..TDen}] : RSum(r, States) = ROne}
\* The raw transition matrices (model.transmat_ after model.fit).
Transmats == [States -> StochasticRows]

\* Mutant of _smooth_transmat: the pseudocount is added, the rows are not
\* renormalized.
_smooth_transmat_no_renorm(T) == [i \in States |-> [j \in States |-> RAdd(T[i][j], eps)]]

\* _smooth_transmat(model, eps): T = T + eps; T = T / T.sum(axis=1, keepdims=True)
_smooth_transmat(T) ==
    LET T1 == [i \in States |-> [j \in States |-> RAdd(T[i][j], eps)]]
        rowsum == [i \in States |-> RSum(T1[i], States)]
    IN [i \in States |-> [j \in States |-> RDiv(T1[i][j], rowsum[i])]]

InitSmooth ==
    /\ sm_pc = "start"
    /\ sm_raw \in Transmats
    /\ sm_model = sm_raw
    /\ IdleAlign /\ IdleFit /\ IdleRegime /\ IdleStages /\ IdleOps

\* lines 30-33
Smooth ==
    /\ sm_pc = "start"
    /\ sm_model' = _smooth_transmat(sm_model)
    /\ sm_pc' = "smoothed"
    /\ UNCHANGED <<sm_raw, nonSmoothVars>>

NextSmooth == Smooth

SpecSmooth == InitSmooth /\ [][NextSmooth]_vars


\* -np.inf
NegInf == -1000000

\* The raw transition matrices a fit is taken to converge to: every state
\* moves to one state with probability 1, so every row holds exact zeros.
FittedTransmats ==
    {[i \in States |-> [j \in States |-> IF j = f[i] THEN ROne ELSE RZero]] :
        f \in [States -> States]}

\* GaussianHMM(n_components=..., covariance_type="diag", n_iter=500, tol=1e-4,
\*             random_state=seed, verbose=False, min_covar=min_covar)
GaussianHMM(random_state) ==
    [n_components |-> K, covariance_type |-> "diag", n_iter |-> 500, tol |-> "1e-4",
     random_state |-> random_state, verbose |-> FALSE, min_covar |-> "1e-2"]

\* Mutant of Better: a tie replaces the best fit.
Better_or_equal(score, best) == score >= best

\* line 59: if score > best_score
Better(score, best) == score > best

InitFit ==
    /\ fit_pc = "loop"
    /\ seed = FirstSeed
    /\ best_model = None
    /\ best_score = NegInf
    /\ constructed = <<>>
    /\ first_seen = [v \in 1..MaxScore |-> 0]
    /\ tie_seen = FALSE
    /\ returned = None
    /\ IdleAlign /\ IdleSmooth /\ IdleRegime /\ IdleStages /\ IdleOps

\* lines 46-61: one restart: construct, fit, smooth, score, compare
FitTry ==
    /\ fit_pc = "loop"
    /\ seed < FirstSeed + n_tries
    /\ \E T \in FittedTransmats : \E score \in 1..MaxScore :
          LET model == [params |-> GaussianHMM(seed), transmat_ |-> _smooth_transmat(T)]
          IN /\ IF Better(score, best_score)
                   THEN best_score' = score /\ best_model' = model
                   ELSE UNCHANGED <<best_score, best_model>>
             /\ first_seen' = IF first_seen[score] = 0
                                 THEN [first_seen EXCEPT ![score] = seed]
                                 ELSE first_seen
             /\ tie_seen' = IF score = best_score THEN TRUE
                              ELSE IF score > best_score THEN FALSE ELSE tie_seen
    /\ constructed' = Append(constructed, GaussianHMM(seed))
    /\ seed' = seed + 1
    /\ UNCHANGED <<fit_pc, returned, nonFitVars>>

\* lines 63-65: the loop is over; assert best_model is not None; return it
FitReturn ==
    /\ fit_pc = "loop"
    /\ seed = FirstSeed + n_tries
    /\ best_model # None
    /\ returned' = best_model
    /\ fit_pc' = "returned"
    /\ UNCHANGED <<seed, best_model, best_score, constructed, first_seen, tie_seen, nonFitVars>>

NextFit == FitTry \/ FitReturn

SpecFit == InitFit /\ [][NextFit]_vars

\* ======================================================================
\* The Regime Inference Engine: main() of 06 (static mixture) and 07
\* (sequential model)
\* ======================================================================
\* Number of rows of the FeatureTable.
MaxRows == 3
\* The values a present z-score feature takes.
ZScores == {0, 1}

\* The rows gli_master.parquet can hold, row i dated i: both expansiveness
\* features present, or the selected features missing (window not yet filled).
FeatureRows(i) ==
    {[date |-> i, netliq_z252 |-> a, gcb_z252 |-> b] : a \in ZScores, b \in ZScores}
        \cup {[date |-> i, netliq_z252 |-> NaN, gcb_z252 |-> NaN]}
FeatureTables(n) ==
    {t \in [1..n -> UNION {FeatureRows(i) : i \in 1..n}] : \A i \in 1..n : t[i] \in FeatureRows(i)}

\* The transition matrices the fit of main() is taken to estimate before
\* smoothing: every state stays, every state moves to the next one, every
\* state moves to state 0.
RegimeTransmats ==
    {[i \in States |-> [j \in States |-> IF j = f[i] THEN ROne ELSE RZero]] :
        f \in {[i \in States |-> i], [i \in States |-> (i + 1) % K], [i \in States |-> 0]}}

\* Mutant of notna_all: a row is kept when any selected feature is present.
notna_any(t) == SelectSeq(t, LAMBDA r : r.netliq_z252 # NaN \/ r.gcb_z252 # NaN)

\* mask = X.notna().all(axis=1); df2 = df.loc[mask]
notna_all(t) == SelectSeq(t, LAMBDA r : r.netliq_z252 # NaN /\ r.gcb_z252 # NaN)

\* The posterior of a row decoded as raw state h: peaked at h.
Posterior(h) == [r \in States |-> IF r = h THEN Rat(8, 10) ELSE Rat(1, 10)]

RECURSIVE IntSum(_, _)
\* the sum of f[x] over x in S
IntSum(f, S) ==
    IF S = {} THEN 0 ELSE LET x == CHOOSE y \in S : TRUE IN f[x] + IntSum(f, S \ {x})

\* groupby("state")[["netliq_z252", "gcb_z252"]].mean(), then
\* score = means["netliq_z252"] + means["gcb_z252"]
Score(d, h, r) ==
    LET rows == {i \in 1..Len(h) : h[i] = r}
        mean_netliq == Rat(IntSum([i \in rows |-> d[i].netliq_z252], rows), Cardinality(rows))
        mean_gcb == Rat(IntSum([i \in rows |-> d[i].gcb_z252], rows), Cardinality(rows))
    IN RAdd(mean_netliq, mean_gcb)

\* score.sort_values(ascending=False).index.tolist(): every order of the
\* states S by non-increasing score (the default quicksort is not stable, so
\* states of equal score may come out in any order).
RECURSIVE DescOrders(_, _, _)
DescOrders(d, h, S) ==
    IF S = {} THEN {<<>>}
    ELSE LET top == {r \in S : \A q \in S : RLe(Score(d, h, q), Score(d, h, r))}
         IN UNION {{<<r>> \o t : t \in DescOrders(d, h, S \ {r})} : r \in top}

\* {old_state: new_regime for new_regime, old_state in enumerate(order)}
enumerate_mapping(order) ==
    [old \in {order[n] : n \in 1..Len(order)} |->
        (CHOOSE n \in 1..Len(order) : order[n] = old) - 1]

\* _order_states_by_expansiveness(df, hidden_states), and lines 61-64 of 06:
\* the mappings it can return.
_order_states_by_expansiveness(d, h) ==
    {enumerate_mapping(order) : order \in DescOrders(d, h, {h[i] : i \in 1..Len(h)})}

\* df2["regime"] = df2["state_raw"].map(mapping)
map_states(h, m) == [i \in 1..Len(h) |-> m[h[i]]]

\* 06 lines 55-57: regime_p0, regime_p1, regime_p2 = probs[:, 0], probs[:, 1], probs[:, 2]
gmm_prob_columns(probs) == [i \in 1..Len(probs) |-> [k \in States |-> probs[i][k]]]

\* 07 lines 112-115: p_regime = zeros; p_regime[:, mapping[old]] = post[:, old]
reorder_posterior(p, m) ==
    [i \in 1..Len(p) |->
        [c \in States |->
            LET olds == {o \in States : m[o] = c}
            IN IF olds = {} THEN RZero ELSE p[i][Max(olds)]]]

\* Mutant of permute_transmat: only the rows are permuted.
permute_rows_only(T, m) ==
    LET inv == [c \in States |-> CHOOSE o \in States : m[o] = c]
    IN [i \in States |-> [j \in States |-> T[inv[i]][j]]]

\* 07 lines 122-125: inv = {v: k}; order_raw = [inv[0], inv[1], inv[2]];
\* trans_regime = trans_raw[np.ix_(order_raw, order_raw)]
permute_transmat(T, m) ==
    LET inv == [c \in States |-> CHOOSE o \in States : m[o] = c]
        order_raw == [c \in States |-> inv[c]]
    IN [i \in States |-> [j \in States |-> T[order_raw[i]][order_raw[j]]]]

\* the regime table written: date, regime and the probability columns
regime_table(d, reg, p) ==
    [rows |-> [i \in 1..Len(d) |-> [date |-> d[i].date, regime |-> reg[i], p |-> p[i]]]]

InitRegime ==
    /\ rg_pc = "start"
    /\ backend \in {"gmm", "hmm"}
    /\ \E n \in 0..MaxRows : gli_master \in FeatureTables(n)
    /\ df2 = <<>> /\ hmm = None
    /\ hidden_states = <<>> /\ post = <<>> /\ mapping = <<>> /\ regime = <<>>
    /\ p_regime = <<>> /\ trans_regime = <<>> /\ out_parquet = None /\ out_trans = None
    /\ mapping2 = <<>>
    /\ IdleAlign /\ IdleSmooth /\ IdleFit /\ IdleStages /\ IdleOps

\* 06 lines 19-43: read the FeatureTable, keep the rows with every feature
GmmLoad ==
    /\ rg_pc = "start" /\ backend = "gmm"
    /\ df2' = notna_all(gli_master)
    /\ rg_pc' = "masked"
    /\ UNCHANGED <<backend, gli_master, hmm, hidden_states, post, mapping, regime, p_regime,
                   trans_regime, out_parquet, out_trans, mapping2, nonRegimeVars>>

\* 06 lines 46-57: scale, fit the mixture, predict; the hard state of a row is
\* the arg-max of its posterior
GmmFit ==
    /\ rg_pc = "masked" /\ backend = "gmm"
    /\ Len(df2) >= K
    /\ \E h \in [1..Len(df2) -> States] :
          /\ hidden_states' = h
          /\ post' = [i \in 1..Len(df2) |-> Posterior(h[i])]
          /\ p_regime' = gmm_prob_columns([i \in 1..Len(df2) |-> Posterior(h[i])])
    /\ rg_pc' = "fitted"
    /\ UNCHANGED <<backend, gli_master, df2, hmm, mapping, regime, trans_regime, out_parquet,
                   out_trans, mapping2, nonRegimeVars>>

\* 06 lines 46-51: StandardScaler / GaussianMixture raise ValueError on fewer
\* rows than components
GmmFitError ==
    /\ rg_pc = "masked" /\ backend = "gmm"
    /\ Len(df2) < K
    /\ rg_pc' = "error"
    /\ UNCHANGED <<backend, gli_master, df2, hmm, hidden_states, post, mapping, regime,
                   p_regime, trans_regime, out_parquet, out_trans, mapping2, nonRegimeVars>>

\* 06 lines 61-65: canonical relabeling of the hard state
GmmRelabel ==
    /\ rg_pc = "fitted" /\ backend = "gmm"
    /\ \E m \in _order_states_by_expansiveness(df2, hidden_states) :
          /\ mapping' = m
          /\ regime' = map_states(hidden_states, m)
    /\ rg_pc' = "relabelled"
    /\ UNCHANGED <<backend, gli_master, df2, hmm, hidden_states, post, p_regime, trans_regime,
                   out_parquet, out_trans, mapping2, nonRegimeVars>>

\* 06 lines 68-71: write date, regime, regime_p0, regime_p1, regime_p2
GmmWrite ==
    /\ rg_pc = "relabelled" /\ backend = "gmm"
    /\ out_parquet' = regime_table(df2, regime, p_regime)
    /\ rg_pc' = "written"
    /\ UNCHANGED <<backend, gli_master, df2, hmm, hidden_states, post, mapping, regime,
                   p_regime, trans_regime, out_trans, mapping2, nonRegimeVars>>

\* 07 lines 71-91
HmmLoad ==
    /\ rg_pc = "start" /\ backend = "hmm"
    /\ df2' = notna_all(gli_master)
    /\ rg_pc' = "masked"
    /\ UNCHANGED <<backend, gli_master, hmm, hidden_states, post, mapping, regime, p_regime,
                   trans_regime, out_parquet, out_trans, mapping2, nonRegimeVars>>

\* 07 lines 93-105: scale, _fit_best_hmm (a smoothed model of some restart),
\* predict and predict_proba
HmmFit ==
    /\ rg_pc = "masked" /\ backend = "hmm"
    /\ Len(df2) >= K
    /\ \E T \in RegimeTransmats : hmm' = [transmat_ |-> _smooth_transmat(T)]
    /\ \E h \in [1..Len(df2) -> States] :
          /\ hidden_states' = h
          /\ post' = [i \in 1..Len(df2) |-> Posterior(h[i])]
    /\ rg_pc' = "fitted"
    /\ UNCHANGED <<backend, gli_master, df2, mapping, regime, p_regime, trans_regime,
                   out_parquet, out_trans, mapping2, nonRegimeVars>>

\* 07 lines 93-102: StandardScaler / GaussianHMM.fit raise ValueError on fewer
\* rows than components
HmmFitError ==
    /\ rg_pc = "masked" /\ backend = "hmm"
    /\ Len(df2) < K
    /\ rg_pc' = "error"
    /\ UNCHANGED <<backend, gli_master, df2, hmm, hidden_states, post, mapping, regime,
                   p_regime, trans_regime, out_parquet, out_trans, mapping2, nonRegimeVars>>

\* 07 lines 107-125: relabel the states, reorder the posterior, permute the
\* transition matrix
HmmRelabel ==
    /\ rg_pc = "fitted" /\ backend = "hmm"
    /\ \E m \in _order_states_by_expansiveness(df2, hidden_states) :
          /\ DOMAIN m = States
          /\ mapping' = m
          /\ regime' = map_states(hidden_states, m)
          /\ p_regime' = reorder_posterior(post, m)
          /\ trans_regime' = permute_transmat(hmm.transmat_, m)
    /\ rg_pc' = "relabelled"
    /\ UNCHANGED <<backend, gli_master, df2, hmm, hidden_states, post, out_parquet, out_trans,
                   mapping2, nonRegimeVars>>

\* 07 line 114: mapping[int(old_state)] raises KeyError for a raw state that
\* no row was assigned
HmmRelabelKeyError ==
    /\ rg_pc = "fitted" /\ backend = "hmm"
    /\ \E m \in _order_states_by_expansiveness(df2, hidden_states) :
          /\ DOMAIN m # States
          /\ mapping' = m
          /\ regime' = map_states(hidden_states, m)
    /\ rg_pc' = "error"
    /\ UNCHANGED <<backend, gli_master, df2, hmm, hidden_states, post, p_regime, trans_regime,
                   out_parquet, out_trans, mapping2, nonRegimeVars>>

\* 07 lines 127-150: write the regime table and the transition matrix
HmmWrite ==
    /\ rg_pc = "relabelled" /\ backend = "hmm"
    /\ out_parquet' = regime_table(df2, regime, p_regime)
    /\ out_trans' = [matrix |-> trans_regime]
    /\ rg_pc' = "written"
    /\ UNCHANGED <<backend, gli_master, df2, hmm, hidden_states, post, mapping, regime,
                   p_regime, trans_regime, mapping2, nonRegimeVars>>

NextRegime ==
    \/ GmmLoad \/ GmmFit \/ GmmFitError \/ GmmRelabel \/ GmmWrite
    \/ HmmLoad \/ HmmFit \/ HmmFitError \/ HmmRelabel \/ HmmRelabelKeyError \/ HmmWrite

SpecRegime == InitRegime /\ [][NextRegime]_vars

\* ----------------------------------------------------------------------
\* main() of 06 / 07 on FeatureTables with missing features
\* ----------------------------------------------------------------------
\* Number of rows of a FeatureTable with missing features.
MaxTable == 4

\* Row i of such a table: each selected feature is present (0) or missing.
MaskRows(i) ==
    {[date |-> i, netliq_z252 |-> a, gcb_z252 |-> b] : a \in {0, NaN}, b \in {0, NaN}}
MaskTables(n) ==
    {t \in [1..n -> UNION {MaskRows(i) : i \in 1..n}] : \A i \in 1..n : t[i] \in MaskRows(i)}

InitMask ==
    /\ rg_pc = "start"
    /\ backend \in {"gmm", "hmm"}
    /\ \E n \in 0..MaxTable : gli_master \in MaskTables(n)
    /\ df2 = <<>> /\ hmm = None
    /\ hidden_states = <<>> /\ post = <<>> /\ mapping = <<>> /\ regime = <<>>
    /\ p_regime = <<>> /\ trans_regime = <<>> /\ out_parquet = None /\ out_trans = None
    /\ mapping2 = <<>>
    /\ IdleAlign /\ IdleSmooth /\ IdleFit /\ IdleStages /\ IdleOps

SpecMask == InitMask /\ [][NextRegime]_vars

\* ----------------------------------------------------------------------
\* _order_states_by_expansiveness applied twice to the same feature rows
\* ----------------------------------------------------------------------
InitRelabel ==
    /\ rg_pc = "rows"
    /\ backend = "none"
    /\ gli_master = <<>>
    /\ \E n \in 1..MaxRows :
          /\ df2 \in {t \in FeatureTables(n) : notna_all(t) = t}
          /\ hidden_states \in [1..n -> States]
    /\ hmm = None /\ post = <<>> /\ mapping = <<>> /\ regime = <<>>
    /\ p_regime = <<>> /\ trans_regime = <<>> /\ out_parquet = None /\ out_trans = None
    /\ mapping2 = <<>>
    /\ IdleAlign /\ IdleSmooth /\ IdleFit /\ IdleStages /\ IdleOps

\* first application: mapping = _order_states_by_expansiveness(df2, hidden_states);
\* df2["regime"] = state_raw.map(mapping)
RelabelOnce ==
    /\ rg_pc = "rows"
    /\ \E m \in _order_states_by_expansiveness(df2, hidden_states) :
          /\ mapping' = m
          /\ regime' = map_states(hidden_states, m)
    /\ rg_pc' = "once"
    /\ UNCHANGED <<backend, gli_master, df2, hmm, hidden_states, post, p_regime, trans_regime,
                   out_parquet, out_trans, mapping2, nonRegimeVars>>

\* second application, to the rows labelled with the canonical labels
RelabelAgain ==
    /\ rg_pc = "once"
    /\ mapping2' \in _order_states_by_expansiveness(df2, regime)
    /\ rg_pc' = "twice"
    /\ UNCHANGED <<backend, gli_master, df2, hmm, hidden_states, post, mapping, regime,
                   p_regime, trans_regime, out_parquet, out_trans, nonRegimeVars>>

NextRelabel == RelabelOnce \/ RelabelAgain

SpecRelabel == InitRelabel /\ [][NextRelabel]_vars

\* ======================================================================
\* The Feature Engineering stage: 05_build_gli_master.py
\* ======================================================================
\* Number of rows of a column given to pct_change.
MaxLen == 8
\* The values of a level column (net_liquidity_usa_millions,
\* global_cb_assets_usd_millions): negative, zero and positive.
LevelValues == {-1, 0, 2}

\* A float64 result: a number (exact rational), NaN, or +/- infinity.
FNaN == [kind |-> "nan"]
FInf(sign) == [kind |-> "inf", sign |-> sign]
FNum(r) == [kind |-> "num", v |-> r]

\* IEEE-754 division of two integer-valued floats
fdiv(a, b) ==
    IF b # 0 THEN FNum(Rat(a, b))
    ELSE IF a = 0 THEN FNaN
    ELSE IF a > 0 THEN FInf(1) ELSE FInf(-1)

\* x - 1 on floats
fminus1(x) ==
    IF x.kind = "num" THEN FNum(RAdd(x.v, Rat(-1, 1))) ELSE x

\* Series.pct_change(periods): data / data.shift(periods) - 1, on a column
\* without missing values
pct_change(s, periods) ==
    [t \in 1..Len(s) |-> IF t <= periods THEN FNaN ELSE fminus1(fdiv(s[t], s[t - periods]))]

InitPct ==
    /\ ft_pc = "start"
    /\ \E n \in 0..MaxLen : ft_s \in [1..n -> LevelValues]
    /\ ft_s2 = <<>> /\ ft_cols = <<>> /\ ft_cols2 = <<>>
    /\ IdleEngine /\ IdleRead /\ IdleUnits /\ IdleFx /\ IdleOps

\* 05 lines 62-63 (and 64-65 for the other level column)
PctChange ==
    /\ ft_pc = "start"
    /\ ft_cols' = [d1_pct |-> pct_change(ft_s, 1), w1_pct |-> pct_change(ft_s, 7)]
    /\ ft_pc' = "done"
    /\ UNCHANGED <<ft_s, ft_s2, ft_cols2, nonFeatureVars>>

NextPct == PctChange

SpecPct == InitPct /\ [][NextPct]_vars

\* ------------------------------------------------- rolling statistics
\* Number of rows of a column given to the rolling statistics.
MaxCol == 4
\* The window lengths of main(), (90, 252), scaled down to the column lengths
\* of the model.
Windows == {2, 3}
\* The values of an input column.
ColValues == {0, 1, 3}
\* The input columns of n rows: a level column has no missing value, a delta
\* column (diff(1)) can miss its first row.
Columns(n) ==
    {c \in [1..n -> ColValues \cup {NaN}] : \A t \in 2..n : c[t] # NaN}

RSub(x, y) == Rat(x.n * y.d - y.n * x.d, x.d * y.d)
RMul(x, y) == Rat(x.n * y.n, x.d * y.d)

\* A float that is the square root of the rational sq, with the given sign:
\* sign * sqrt(sq).
FRoot(sign, sq) == [kind |-> "root", sign |-> sign, sq |-> sq]

\* Mutant of rolling_window: the window starts at row t and looks forward.
rolling_window_forward(s, t, window) ==
    IF t + window - 1 > Len(s) \/ \E j \in t..(t + window - 1) : s[j] = NaN
    THEN <<>>
    ELSE [j \in 1..window |-> s[t + j - 1]]

\* s.rolling(window): the window of row t, rows t-window+1..t, or <<>> when it
\* holds fewer than min_periods = window observations.
rolling_window(s, t, window) ==
    IF t < window \/ \E j \in (t - window + 1)..t : s[j] = NaN
    THEN <<>>
    ELSE [j \in 1..window |-> s[t - window + j]]

\* s.rolling(window).mean() at one window
window_mean(x) == Rat(IntSum(x, 1..Len(x)), Len(x))

\* s.rolling(window).std(ddof) at one window, squared
window_var(x, ddof) ==
    LET mu == window_mean(x)
        sq == [j \in 1..Len(x) |-> RMul(RSub(Rat(x[j], 1), mu), RSub(Rat(x[j], 1), mu))]
    IN RDiv(RSum(sq, 1..Len(x)), Rat(Len(x) - ddof, 1))

\* (s - mu) / sd at one row, in float64
zscore_at(v, x, ddof) ==
    IF x = <<>> THEN FNaN
    ELSE LET num == RSub(Rat(v, 1), window_mean(x))
             var == window_var(x, ddof)
         IN IF var = RZero
            THEN (IF num = RZero THEN FNaN ELSE IF num.n > 0 THEN FInf(1) ELSE FInf(-1))
            ELSE FRoot(IF num.n > 0 THEN 1 ELSE IF num.n < 0 THEN -1 ELSE 0,
                       RDiv(RMul(num, num), var))

\* Mutant of zscore: the sample standard deviation (ddof=1).
zscore_ddof1(s, window) ==
    [t \in 1..Len(s) |-> zscore_at(s[t], rolling_window(s, t, window), 1)]

\* zscore(s, window): mu = rolling mean, sd = rolling std(ddof=0), (s - mu) / sd
zscore(s, window) ==
    [t \in 1..Len(s) |-> zscore_at(s[t], rolling_window(s, t, window), 0)]

\* Mutant of rank_pct_last: ties take the lowest rank (method="min").
rank_pct_last_min(x) ==
    LET last == x[Len(x)]
        less == Cardinality({j \in 1..Len(x) : x[j] < last})
    IN FNum(Rat(less + 1, Len(x)))

\* pd.Series(x).rank(pct=True).iloc[-1]: the values equal to the last one
\* take the average of the positions they occupy in sorted order; pct=True
\* divides by the number of values.
rank_pct_last(x) ==
    LET last == x[Len(x)]
        less == Cardinality({j \in 1..Len(x) : x[j] < last})
        ties == Cardinality({j \in 1..Len(x) : x[j] = last})
        positions == (less + 1)..(less + ties)
    IN FNum(RDiv(Rat(IntSum([p \in positions |-> p], positions), ties), Rat(Len(x), 1)))

\* pct_rank(s, window): s.rolling(window).apply(lambda x: ...rank(pct=True).iloc[-1])
pct_rank(s, window) ==
    [t \in 1..Len(s) |->
        LET x == rolling_window(s, t, window)
        IN IF x = <<>> THEN FNaN ELSE rank_pct_last(x)]

\* 05 lines 68-78: the rolling columns of one input column
rolling_columns(s) ==
    [z |-> [w \in Windows |-> zscore(s, w)], pct |-> [w \in Windows |-> pct_rank(s, w)]]

InitRolling ==
    /\ ft_pc = "start"
    /\ \E n \in 0..MaxCol :
          /\ ft_s \in Columns(n)
          /\ ft_s2 \in {c \in Columns(n) : n = 0 \/ c[1] = ft_s[1]}
    /\ ft_cols = <<>> /\ ft_cols2 = <<>>
    /\ IdleEngine /\ IdleRead /\ IdleUnits /\ IdleFx /\ IdleOps

\* 05 lines 68-78, for two input columns
Rolling ==
    /\ ft_pc = "start"
    /\ ft_cols' = rolling_columns(ft_s)
    /\ ft_cols2' = rolling_columns(ft_s2)
    /\ ft_pc' = "done"
    /\ UNCHANGED <<ft_s, ft_s2, nonFeatureVars>>

NextRolling == Rolling

SpecRolling == InitRolling /\ [][NextRolling]_vars

\* ======================================================================
\* The Series Normalizer on one bronze file:
\* 03_build_net_liquidity_fixed_units.py _read_series (04's _read is the same
\* code), and the main() that called it
\* ======================================================================
\* Number of rows of the bronze file.
MaxRead == 2
\* The bronze files of main().
Paths == {"WALCL.parquet", "RRPONTSYD.parquet", "WTREGEN.parquet"}
\* The columns a bronze file can have.
FileColumns == {"date", "value", "realtime_start"}

\* Mutant of has_required_columns: only the timestamp column is checked.
has_date_column(columns) == "date" \in columns

\* line 26, negated: "date" in df.columns and "value" in df.columns
has_required_columns(columns) == "date" \in columns /\ "value" \in columns

InitRead ==
    /\ rd_pc = "start"
    /\ rd_path \in Paths
    /\ rd_columns \in SUBSET FileColumns
    /\ \E n \in 0..MaxRead : rd_rows \in RawFiles(n)
    /\ rd_frame = None /\ rd_exit = None
    /\ IdleEngine /\ IdleFeature /\ IdleUnits /\ IdleFx /\ IdleOps

\* lines 24-27: raise SystemExit(f"[ERROR] Formato inesperado en {path}.
\* Columnas: {list(df.columns)}")
ReadExit ==
    /\ rd_pc = "start"
    /\ ~has_required_columns(rd_columns)
    /\ rd_exit' = [path |-> rd_path, columns |-> rd_columns]
    /\ rd_pc' = "exit"
    /\ UNCHANGED <<rd_path, rd_columns, rd_rows, rd_frame, nonReadVars>>

\* lines 24-34: coerce, drop the missing rows, sort, return
ReadReturn ==
    /\ rd_pc = "start"
    /\ has_required_columns(rd_columns)
    /\ \E f \in _read_series(rd_rows) : rd_frame' = [rows |-> f]
    /\ rd_pc' = "returned"
    /\ UNCHANGED <<rd_path, rd_columns, rd_rows, rd_exit, nonReadVars>>

\* main() lines 89-120: with the frame returned, main() goes on to the
\* alignment and writes its output
ReadContinue ==
    /\ rd_pc = "returned"
    /\ rd_pc' = "aligned"
    /\ UNCHANGED <<rd_path, rd_columns, rd_rows, rd_frame, rd_exit, nonReadVars>>

NextRead == ReadExit \/ ReadReturn \/ ReadContinue

SpecRead == InitRead /\ [][NextRead]_vars

\* ======================================================================
\* 03_build_net_liquidity_fixed_units.py _to_millions_multiplier(units)
\* ======================================================================
\* Number of words of a units string.
MaxWords == 2
\* A units string is a sequence of words; the words FRED metadata is made of
\* here, in several spellings.
Words == {"Billions", "billions", "Millions", "MILLIONS", "Thousands", "of", "Dollars", "Index"}

\* str.lower() of a word
lower_word(w) ==
    CASE w = "Billions" -> "billions"
      [] w = "Millions" -> "millions"
      [] w = "MILLIONS" -> "millions"
      [] w = "Thousands" -> "thousands"
      [] w = "Dollars" -> "dollars"
      [] w = "Index" -> "index"
      [] OTHER -> w

\* units.lower()
lower(u) == [i \in 1..Len(u) |-> lower_word(u[i])]

\* keyword in u
contains(u, keyword) == \E i \in 1..Len(u) : u[i] = keyword

\* The arguments _fred_series_units can hand over: None, or a string.
UnitsArgs == {None} \cup {[str |-> u] : u \in UNION {[1..n -> Words] : n \in 0..MaxWords}}

\* _to_millions_multiplier(units): the multiplier returned and the lines printed
_to_millions_multiplier(units) ==
    IF units = None \/ units.str = <<>>
    THEN [mult |-> Rat(1, 1), stdout |-> <<>>]
    ELSE LET u == lower(units.str)
         IN IF contains(u, "billions") THEN [mult |-> Rat(1000, 1), stdout |-> <<>>]
            ELSE IF contains(u, "millions") THEN [mult |-> Rat(1, 1), stdout |-> <<>>]
            ELSE IF contains(u, "thousands") THEN [mult |-> Rat(1, 1000), stdout |-> <<>>]
            ELSE [mult |-> Rat(1, 1), stdout |-> <<[warn |-> units.str]>>]

InitUnits ==
    /\ un_pc = "start"
    /\ un_units \in UnitsArgs
    /\ un_mult = None /\ un_stdout = <<>>
    /\ IdleEngine /\ IdleFeature /\ IdleRead /\ IdleFx /\ IdleOps

\* lines 56-77
ToMillionsMultiplier ==
    /\ un_pc = "start"
    /\ un_mult' = _to_millions_multiplier(un_units).mult
    /\ un_stdout' = _to_millions_multiplier(un_units).stdout
    /\ un_pc' = "returned"
    /\ UNCHANGED <<un_units, nonUnitsVars>>

NextUnits == ToMillionsMultiplier

SpecUnits == InitUnits /\ [][NextUnits]_vars

\* ======================================================================
\* 04_build_global_cb_assets_usd.py main(): alignment of the three balance
\* sheets and the two FX rates, conversion to USD millions
\* ======================================================================
\* Timestamps of the bronze files of this stage are 1..MaxFxDate.
MaxFxDate == 2
\* The columns of main(), in the order of the _read calls.
FxCols == {"fed_usd_millions", "ecb_eur_millions", "boj_100m_yen", "jpy_per_usd", "usd_per_eur"}

\* The value a bronze file of this stage holds at timestamp d: each series has
\* its own level and every observation of a series its own value.
FxValue(c, d) ==
    CASE c = "fed_usd_millions" -> 10 + d
      [] c = "ecb_eur_millions" -> 20 + d
      [] c = "boj_100m_yen" -> 30 + d
      [] c = "jpy_per_usd" -> 1 + d
      [] c = "usd_per_eur" -> 3 + d

\* A well-formed bronze file: one row for each timestamp of a set of
\* timestamps, in chronological order.
FxFile(c, dates) ==
    LET ds == SetToSortedSeq(dates)
    IN [i \in 1..Len(ds) |-> [date |-> ds[i], value |-> FxValue(c, ds[i])]]

\* cols_ffill ... df[cols_ffill] = df[cols_ffill].ffill()
fx_ffill(d) ==
    [i \in 1..Len(d) |->
        [date |-> d[i].date] @@
        [c \in FxCols |->
            LET known == {j \in 1..i : d[j][c] # NaN}
            IN IF known = {} THEN NaN ELSE d[Max(known)][c]]]

\* df.dropna(subset=[...the five columns...])
fx_dropna(d) == SelectSeq(d, LAMBDA r : \A c \in FxCols : r[c] # NaN)

\* Mutant of boj_usd_millions: the rate is applied in the wrong direction.
boj_usd_millions_times(boj_100m_yen, jpy_per_usd) == Rat(boj_100m_yen * 100 * jpy_per_usd, 1)

\* line 72: df["boj_100m_yen"] * 100.0 / df["jpy_per_usd"]
boj_usd_millions(boj_100m_yen, jpy_per_usd) == Rat(boj_100m_yen * 100, jpy_per_usd)

\* line 65: df["ecb_eur_millions"] * df["usd_per_eur"]
ecb_usd_millions(ecb_eur_millions, usd_per_eur) == Rat(ecb_eur_millions * usd_per_eur, 1)

\* Series.diff(k) of a column of rationals
rdiff(col, k) == [i \in 1..Len(col) |-> IF i <= k THEN FNaN ELSE FNum(RSub(col[i], col[i - k]))]

\* lines 65-79: the converted columns, their sum and its diff(1), diff(7)
fx_convert(d) ==
    LET ecb == [i \in 1..Len(d) |-> ecb_usd_millions(d[i]["ecb_eur_millions"], d[i]["usd_per_eur"])]
        boj == [i \in 1..Len(d) |-> boj_usd_millions(d[i]["boj_100m_yen"], d[i]["jpy_per_usd"])]
        glob == [i \in 1..Len(d) |->
                    RAdd(RAdd(Rat(d[i]["fed_usd_millions"], 1), ecb[i]), boj[i])]
        d1 == rdiff(glob, 1)
        w1 == rdiff(glob, 7)
    IN [i \in 1..Len(d) |->
          d[i] @@ [ecb_usd_millions |-> ecb[i],
                   boj_usd_millions |-> boj[i],
                   global_cb_assets_usd_millions |-> glob[i],
                   global_cb_assets_usd_d1 |-> d1[i],
                   global_cb_assets_usd_w1 |-> w1[i]]]

\* lines 48-51: the four outer merges
FxMergeAll(fr) ==
    merge_outer(
      merge_outer(
        merge_outer(
          merge_outer(rename(fr["fed_usd_millions"], "fed_usd_millions"),
                      rename(fr["ecb_eur_millions"], "ecb_eur_millions"),
                      {"fed_usd_millions"}, {"ecb_eur_millions"}),
          rename(fr["boj_100m_yen"], "boj_100m_yen"),
          {"fed_usd_millions", "ecb_eur_millions"}, {"boj_100m_yen"}),
        rename(fr["jpy_per_usd"], "jpy_per_usd"),
        {"fed_usd_millions", "ecb_eur_millions", "boj_100m_yen"}, {"jpy_per_usd"}),
      rename(fr["usd_per_eur"], "usd_per_eur"),
      {"fed_usd_millions", "ecb_eur_millions", "boj_100m_yen", "jpy_per_usd"}, {"usd_per_eur"})

InitFx ==
    /\ fx_pc = "start"
    /\ \E dates \in [FxCols -> SUBSET (1..MaxFxDate)] :
          fx_bronze = [c \in FxCols |-> FxFile(c, dates[c])]
    /\ fx_df = <<>>
    /\ IdleEngine /\ IdleFeature /\ IdleRead /\ IdleUnits /\ IdleOps

\* lines 31-52: the five _read calls, the outer merges and the sort
FxReadMerge ==
    /\ fx_pc = "start"
    /\ \E fed \in _read_series(fx_bronze["fed_usd_millions"]) :
       \E ecb \in _read_series(fx_bronze["ecb_eur_millions"]) :
       \E boj \in _read_series(fx_bronze["boj_100m_yen"]) :
       \E jpy_per_usd \in _read_series(fx_bronze["jpy_per_usd"]) :
       \E usd_per_eur \in _read_series(fx_bronze["usd_per_eur"]) :
          fx_df' \in sort_values(FxMergeAll(
                       [fed_usd_millions |-> fed, ecb_eur_millions |-> ecb, boj_100m_yen |-> boj,
                        jpy_per_usd |-> jpy_per_usd, usd_per_eur |-> usd_per_eur]))
    /\ fx_pc' = "merged"
    /\ UNCHANGED <<fx_bronze, nonFxVars>>

\* lines 55-56: forward fill
FxForwardFill ==
    /\ fx_pc = "merged"
    /\ fx_df' = fx_ffill(fx_df)
    /\ fx_pc' = "filled"
    /\ UNCHANGED <<fx_bronze, nonFxVars>>

\* line 59: drop the leading rows that miss a column
FxDropLeading ==
    /\ fx_pc = "filled"
    /\ fx_df' = fx_dropna(fx_df)
    /\ fx_pc' = "aligned"
    /\ UNCHANGED <<fx_bronze, nonFxVars>>

\* lines 65-79: conversion to USD millions, sum, deltas
FxConvert ==
    /\ fx_pc = "aligned"
    /\ fx_df' = fx_convert(fx_df)
    /\ fx_pc' = "done"
    /\ UNCHANGED <<fx_bronze, nonFxVars>>

NextFx == FxReadMerge \/ FxForwardFill \/ FxDropLeading \/ FxConvert

SpecFx == InitFx /\ [][NextFx]_vars

\* ======================================================================
\* 05_build_gli_master.py main(): the join of the net-liquidity table (03)
\* and the global-central-bank-assets table (04) into the FeatureTable
\* ======================================================================
\* Timestamps of the two silver tables are 1..MaxMasterDate.
MaxMasterDate == 9

\* The levels the two silver tables hold at timestamp d.
NetLevel(d) == d * d
GcbLevel(d) == d * d + d

\* net_liquidity_usa_fixed.parquet as 03 main() writes it (lines 112-114) for
\* a set of timestamps: the level and its diff(1), diff(7) over the rows of
\* that table.
net_table(dates) ==
    LET ds == SetToSortedSeq(dates)
        level == [i \in 1..Len(ds) |-> NetLevel(ds[i])]
        d1 == diff(level, 1)
        w1 == diff(level, 7)
    IN [i \in 1..Len(ds) |->
          [date |-> ds[i],
           net_liquidity_usa_millions |-> level[i],
           net_liquidity_usa_millions_d1 |-> d1[i],
           net_liquidity_usa_millions_w1 |-> w1[i]]]

\* global_cb_assets_usd.parquet as 04 main() writes it (lines 75-79)
gcb_table(dates) ==
    LET ds == SetToSortedSeq(dates)
        level == [i \in 1..Len(ds) |-> GcbLevel(ds[i])]
        d1 == diff(level, 1)
        w1 == diff(level, 7)
    IN [i \in 1..Len(ds) |->
          [gcb_date |-> ds[i],
           global_cb_assets_usd_millions |-> level[i],
           global_cb_assets_usd_d1 |-> d1[i],
           global_cb_assets_usd_w1 |-> w1[i],
           usd_per_eur |-> FxValue("usd_per_eur", ds[i]),
           jpy_per_usd |-> FxValue("jpy_per_usd", ds[i])]]

\* The timestamp sets of a silver table: 1..n with at most two timestamps
\* missing.
DateSets(n) == {(1..n) \ {a, b} : a \in 0..n, b \in 0..n}

\* net.merge(gcb, on="date", how="inner"): the pairs of rows of equal date, in
\* the order of the left table
merge_inner(left, right) ==
    Flatten([i \in 1..Len(left) |->
               LET R == SelectSeq(right, LAMBDA r : r.gcb_date = left[i].date)
               IN [j \in 1..Len(R) |-> left[i] @@ R[j]]])

\* lines 62-78: the percent changes, rolling z-scores and rolling percentile
\* ranks, added to the rows of df
add_features(d) ==
    LET col(name) == [i \in 1..Len(d) |-> d[i][name]]
        net == col("net_liquidity_usa_millions")
        gcb == col("global_cb_assets_usd_millions")
        net_d1 == col("net_liquidity_usa_millions_d1")
        gcb_d1 == col("global_cb_assets_usd_d1")
        netliq_d1_pct == pct_change(net, 1)
        netliq_w1_pct == pct_change(net, 7)
        gcb_d1_pct == pct_change(gcb, 1)
        gcb_w1_pct == pct_change(gcb, 7)
        netliq_z == [w \in Windows |-> zscore(net, w)]
        gcb_z == [w \in Windows |-> zscore(gcb, w)]
        netliq_d1_z == [w \in Windows |-> zscore(net_d1, w)]
        gcb_d1_z == [w \in Windows |-> zscore(gcb_d1, w)]
        netliq_pct == [w \in Windows |-> pct_rank(net, w)]
        gcb_pct == [w \in Windows |-> pct_rank(gcb, w)]
    IN [i \in 1..Len(d) |->
          d[i] @@ [netliq_d1_pct |-> netliq_d1_pct[i], netliq_w1_pct |-> netliq_w1_pct[i],
                   gcb_d1_pct |-> gcb_d1_pct[i], gcb_w1_pct |-> gcb_w1_pct[i],
                   netliq_z |-> [w \in Windows |-> netliq_z[w][i]],
                   gcb_z |-> [w \in Windows |-> gcb_z[w][i]],
                   netliq_d1_z |-> [w \in Windows |-> netliq_d1_z[w][i]],
                   gcb_d1_z |-> [w \in Windows |-> gcb_d1_z[w][i]],
                   netliq_pct |-> [w \in Windows |-> netliq_pct[w][i]],
                   gcb_pct |-> [w \in Windows |-> gcb_pct[w][i]]]]

InitMaster ==
    /\ ms_pc = "start"
    /\ \E n \in 0..MaxMasterDate :
          /\ ms_net \in {net_table(D) : D \in DateSets(n)}
          /\ ms_gcb \in {gcb_table(D) : D \in DateSets(n)}
    /\ ms_df = <<>> /\ ms_out = None
    /\ IdleEngine /\ IdleStages /\ IdleWeekly /\ IdleIngest

\* lines 34-59: read both tables, select the columns, inner merge on date, sort
MasterMerge ==
    /\ ms_pc = "start"
    /\ ms_df' \in sort_values(merge_inner(ms_net, ms_gcb))
    /\ ms_pc' = "merged"
    /\ UNCHANGED <<ms_net, ms_gcb, ms_out, nonMasterVars>>

\* lines 62-78: the additional features
MasterFeatures ==
    /\ ms_pc = "merged"
    /\ ms_df' = add_features(ms_df)
    /\ ms_pc' = "features"
    /\ UNCHANGED <<ms_net, ms_gcb, ms_out, nonMasterVars>>

\* lines 80-83: write gli_master.parquet
MasterWrite ==
    /\ ms_pc = "features"
    /\ ms_out' = [rows |-> ms_df]
    /\ ms_pc' = "written"
    /\ UNCHANGED <<ms_net, ms_gcb, ms_df, nonMasterVars>>

NextMaster == MasterMerge \/ MasterFeatures \/ MasterWrite

SpecMaster == InitMaster /\ [][NextMaster]_vars

\* ======================================================================
\* run_weekly_update.py: the weekly orchestrator
\* ======================================================================
\* A stage that ends by itself returns 0..MaxCode; a stage killed by signal n
\* (1..MaxSignal) has return code -n (subprocess.run on POSIX).
MaxCode == 8
MaxSignal == 9
ReturnCodes == (0 - MaxSignal)..MaxCode

\* lines 12-24
PIPELINE ==
    << "run_ingest_incremental.py",
       "02_build_net_liquidity.py",
       "03_build_net_liquidity_fixed_units.py",
       "04_build_global_cb_assets_usd.py",
       "05_build_gli_master.py",
       "07_train_liquidity_regime_hmm.py" >>

\* Mutant of failed: no return code stops the pipeline.
failed_never(returncode) == FALSE

\* line 34: p.returncode != 0
failed(returncode) == returncode # 0

\* The exit status of the interpreter for raise SystemExit(code): the low
\* eight bits of the code.
exit_status(code) == code % 256

InitWeekly ==
    /\ wk_pc = "loop"
    /\ wk_started = <<>> /\ wk_codes = <<>>
    /\ wk_exit = None /\ wk_stdout = FALSE
    /\ IdleEngine /\ IdleStages /\ IdleMaster /\ IdleIngest

\* lines 41-42, 27-31: the next command of PIPELINE is launched
RunStepStart ==
    /\ wk_pc = "loop"
    /\ Len(wk_started) < Len(PIPELINE)
    /\ wk_started' = Append(wk_started, PIPELINE[Len(wk_started) + 1])
    /\ wk_pc' = "running"
    /\ UNCHANGED <<wk_codes, wk_exit, wk_stdout, nonWeeklyVars>>

\* line 31: subprocess.run returns with the return code of the stage
SubprocessReturn ==
    /\ wk_pc = "running"
    /\ \E returncode \in ReturnCodes : wk_codes' = Append(wk_codes, returncode)
    /\ wk_pc' = "returned"
    /\ UNCHANGED <<wk_started, wk_exit, wk_stdout, nonWeeklyVars>>

\* lines 34-36: [FAIL] and raise SystemExit(p.returncode)
RunStepFail ==
    /\ wk_pc = "returned"
    /\ failed(wk_codes[Len(wk_codes)])
    /\ wk_exit' = [code |-> wk_codes[Len(wk_codes)],
                   status |-> exit_status(wk_codes[Len(wk_codes)])]
    /\ wk_pc' = "exit"
    /\ UNCHANGED <<wk_started, wk_codes, wk_stdout, nonWeeklyVars>>

\* line 38: [OK], back to the loop of main()
RunStepOk ==
    /\ wk_pc = "returned"
    /\ ~failed(wk_codes[Len(wk_codes)])
    /\ wk_pc' = "loop"
    /\ UNCHANGED <<wk_started, wk_codes, wk_exit, wk_stdout, nonWeeklyVars>>

\* line 44: the loop is over, the success message is printed
MainDone ==
    /\ wk_pc = "loop"
    /\ Len(wk_started) = Len(PIPELINE)
    /\ wk_stdout' = TRUE
    /\ wk_pc' = "done"
    /\ UNCHANGED <<wk_started, wk_codes, wk_exit, nonWeeklyVars>>

NextWeekly == RunStepStart \/ SubprocessReturn \/ RunStepFail \/ RunStepOk \/ MainDone

SpecWeekly == InitWeekly /\ [][NextWeekly]_vars

\* ======================================================================
\* run_ingest_incremental.py: the incremental ingestion of one FRED series
\* ======================================================================
MaxRuns == 2
MaxFetch == 2
MaxIngestDate == 3

\* A row of the series file: the run that fetched it stands for its value (0
\* for a row of the file the first run finds).
IngestRow(d, run) == [date |-> d, value |-> run, series_id |-> "WALCL"]

\* The dates of n fetched rows, sorted by date (ingest/fred.py line 36); the
\* server chooses them.
FetchDates(n) ==
    {q \in [1..n -> 1..MaxIngestDate] : \A i \in 1..n : \A j \in 1..n : i < j => q[i] <= q[j]}

\* fetch_fred_series (ingest/fred.py lines 13-38) of run `run`: None, or up to
\* MaxFetch rows
FetchResults(run) ==
    {None} \cup
    UNION {{[rows |-> [i \in 1..n |-> IngestRow(ds[i], run)]] : ds \in FetchDates(n)} :
             n \in 0..MaxFetch}

\* The series files a first run can find: none, or a sorted file of distinct
\* dates.
StoredFiles ==
    {None} \cup
    {[rows |-> LET ds == SetToSortedSeq(D) IN [i \in 1..Len(ds) |-> IngestRow(ds[i], 0)]] :
        D \in (SUBSET (1..MaxIngestDate)) \ {{}}}

\* lines 45-54: None without a file, without rows or without a date
\* that converts; else the largest date
_max_date_in_parquet(file) ==
    IF file = None THEN None
    ELSE LET d == {file.rows[i].date : i \in 1..Len(file.rows)} \ {NaN}
         IN IF d = {} THEN None ELSE [date |-> Max(d)]

\* Mutant of drop_duplicates: keep="first".
drop_duplicates_first(d) ==
    LET keep == {i \in 1..Len(d) :
                   ~ \E j \in 1..(i - 1) :
                        d[j].date = d[i].date /\ d[j].series_id = d[i].series_id}
        idx == SetToSortedSeq(keep)
    IN [k \in 1..Len(idx) |-> d[idx[k]]]

\* lines 66-67: drop_duplicates(subset=["date", "series_id"], keep="last")
drop_duplicates(d) ==
    LET keep == {i \in 1..Len(d) :
                   ~ \E j \in (i + 1)..Len(d) :
                        d[j].date = d[i].date /\ d[j].series_id = d[i].series_id}
        idx == SetToSortedSeq(keep)
    IN [k \in 1..Len(idx) |-> d[idx[k]]]

\* lines 56-72: the frames the call can return (sort_values is not stable)
_merge_append(old, new_df) ==
    LET cat == IF old # None THEN old.rows \o new_df ELSE new_df
        dedup == drop_duplicates(cat)
    IN sort_values(SelectSeq(dedup, LAMBDA r : r.date # NaN))

\* line 105: df_new is None or df_new.empty
nothing_new(df_new) == IF df_new = None THEN TRUE ELSE df_new.rows = <<>>

InitIngest ==
    /\ ig_pc = "loop"
    /\ ig_runs = 0
    /\ ig_file \in StoredFiles
    /\ ig_prev = ig_file
    /\ ig_start = None
    /\ ig_new = None
    /\ IdleEngine /\ IdleStages /\ IdleMaster /\ IdleWeekly

\* lines 98-104: the watermark, the start of the request, the fetch
IngestFetch ==
    /\ ig_pc = "loop"
    /\ ig_runs < MaxRuns
    /\ ig_runs' = ig_runs + 1
    /\ ig_prev' = ig_file
    /\ LET last == _max_date_in_parquet(ig_file)
       IN ig_start' = IF last # None THEN [date |-> last.date + 1] ELSE None
    /\ ig_new' \in FetchResults(ig_runs + 1)
    /\ ig_pc' = "fetched"
    /\ UNCHANGED <<ig_file, nonIngestVars>>

\* lines 105-108: nothing fetched, the file is left as it is
IngestSkip ==
    /\ ig_pc = "fetched"
    /\ nothing_new(ig_new)
    /\ ig_pc' = "loop"
    /\ UNCHANGED <<ig_runs, ig_file, ig_prev, ig_start, ig_new, nonIngestVars>>

\* lines 110-111: merge with the stored rows and write the file
IngestStore ==
    /\ ig_pc = "fetched"
    /\ ~nothing_new(ig_new)
    /\ \E df_all \in _merge_append(ig_file, ig_new.rows) : ig_file' = [rows |-> df_all]
    /\ ig_pc' = "loop"
    /\ UNCHANGED <<ig_runs, ig_prev, ig_start, ig_new, nonIngestVars>>

NextIngest == IngestFetch \/ IngestSkip \/ IngestStore

SpecIngest == InitIngest /\ [][NextIngest]_vars

\* ======================================================================
\* Claims about the Series Normalizer and the Multi-Series Aligner
\* ======================================================================
Aligned == pc = "aligned"

UniqueDates(f) == \A i, j \in 1..Len(f) : i # j => f[i].date # f[j].date
AllUnique == \A s \in Series : UniqueDates(frames[s])
AllDates == UNION {Dates(frames[s]) : s \in Series}
NoneEmpty == \A s \in Series : frames[s] # <<>>
\* the first timestamp at which every column has been observed
T0 == Max({Min(Dates(frames[s])) : s \in Series})
RetainedDates == IF NoneEmpty THEN {t \in AllDates : t >= T0} ELSE {}
\* the observations of series s made at or before t
ObsUpTo(s, t) == {j \in 1..Len(frames[s]) : frames[s][j].date <= t}
LastObs(s, t) ==
    CHOOSE j \in ObsUpTo(s, t) : \A k \in ObsUpTo(s, t) : frames[s][k].date <= frames[s][j].date

\* C1: for input series with unique timestamps the aligned table holds exactly
\* one row, in chronological order, for each timestamp of the union that is at
\* or after t0 (the first timestamp at which every column has been observed),
\* none before t0, and every cell holds the last observation of its series made
\* at or before the row's timestamp.
C1_AlignedTable ==
    (Aligned /\ AllUnique) =>
        /\ {df[i].date : i \in 1..Len(df)} = RetainedDates
        /\ Len(df) = Cardinality(RetainedDates)
        /\ \A i \in 1..Len(df) : \A j \in 1..Len(df) : i < j => df[i].date < df[j].date
        /\ \A i \in 1..Len(df) : \A s \in Series :
              /\ ObsUpTo(s, df[i].date) # {}
              /\ df[i][s] = frames[s][LastObs(s, df[i].date)].value

\* C1 witness: two rows are retained, a row before t0 was dropped, and a cell
\* of a retained row is forward-filled.
C1_Witness ==
    /\ Aligned /\ AllUnique /\ NoneEmpty
    /\ Len(df) >= 2
    /\ \E t \in AllDates : t < T0
    /\ \E i \in 1..Len(df) : \E s \in Series : df[i].date \notin Dates(frames[s])

\* every timestamp of series a is strictly earlier than every timestamp of b
NeverOverlap(a, b) ==
    \A i \in 1..Len(frames[a]) : \A j \in 1..Len(frames[b]) :
        frames[a][i].date < frames[b][j].date
SomeNeverOverlap == \E a, b \in Series : a # b /\ NeverOverlap(a, b)

RawWith(s, d) ==
    {i \in 1..Len(bronze[s]) :
        to_datetime(bronze[s][i].date) = d /\ to_numeric(bronze[s][i].value) # NaN}

\* C3: the frame _read_series returns has strictly increasing timestamps, and
\* for a timestamp that occurs more than once in the raw file the value kept is
\* that of its last occurrence in input order.
C3_Original ==
    pc = "read" =>
        \A s \in Series :
            /\ \A i, j \in 1..Len(frames[s]) : i < j => frames[s][i].date < frames[s][j].date
            /\ \A i \in 1..Len(frames[s]) :
                  frames[s][i].value =
                      to_numeric(bronze[s][Max(RawWith(s, frames[s][i].date))].value)


\* ======================================================================
\* Claims about the sequential backend
\* ======================================================================
\* C8: after _smooth_transmat every entry is strictly greater than 0, every
\* row sums to 1, and each entry equals (T[i][j] + eps) / (sum_j T[i][j] + K*eps),
\* for every row-stochastic input, exact zeros included.
C8_Smoothing ==
    sm_pc = "smoothed" =>
        \A i \in States :
            /\ \A j \in States : sm_model[i][j].n > 0 /\ sm_model[i][j].d > 0
            /\ RSum(sm_model[i], States) = ROne
            /\ \A j \in States :
                  sm_model[i][j] =
                      RDiv(RAdd(sm_raw[i][j], eps),
                           RAdd(RSum(sm_raw[i], States), Rat(K * EpsNum, EpsDen)))

\* C8 witness: a matrix with an exact zero has been smoothed.
C8_Witness ==
    /\ sm_pc = "smoothed"
    /\ \E i, j \in States : sm_raw[i][j] = RZero


\* C9: _fit_best_hmm fits exactly n_tries models, with the pairwise distinct
\* seeds 42..42+n_tries-1 and identical hyperparameters, and returns the
\* first-seen fit among those of maximal score: no restart scored more than
\* the returned model, and no earlier restart scored the same.
C9_BestOfRestarts ==
    fit_pc = "returned" =>
        /\ Len(constructed) = n_tries
        /\ \A i \in 1..Len(constructed) :
              /\ constructed[i].random_state = FirstSeed + i - 1
              /\ [constructed[i] EXCEPT !.random_state = 0]
                    = [constructed[1] EXCEPT !.random_state = 0]
        /\ \A v \in 1..MaxScore : first_seen[v] # 0 => v <= best_score
        /\ returned # None
        /\ returned.params.random_state = first_seen[best_score]

\* C9 witness: the returned fit replaced an earlier, worse one, and a later
\* restart tied with it.
C9_Witness ==
    /\ fit_pc = "returned"
    /\ returned.params.random_state > FirstSeed
    /\ tie_seen


\* ======================================================================
\* Claims about the Regime Inference Engine
\* ======================================================================
\* the raw states the hard assignment uses
Observed == {hidden_states[i] : i \in 1..Len(hidden_states)}

\* C4: in both backends, for every retained row and every raw state r, the
\* emitted probability column of index mapping[r] equals the model's raw
\* posterior of state r.
C4_Original ==
    rg_pc = "written" =>
        \A i \in 1..Len(out_parquet.rows) : \A r \in DOMAIN mapping :
            out_parquet.rows[i].p[mapping[r]] = post[i][r]

\* C5: the emitted mapping is a bijection from the observed raw states onto
\* {0,..,K-1}, ordered by non-increasing expansiveness score, and every row's
\* emitted regime is mapping[raw state of the row].
C5_Original ==
    rg_pc = "written" =>
        /\ DOMAIN mapping = Observed
        /\ {mapping[r] : r \in DOMAIN mapping} = States
        /\ \A r1, r2 \in DOMAIN mapping : mapping[r1] = mapping[r2] => r1 = r2
        /\ \A r1, r2 \in DOMAIN mapping :
              mapping[r1] < mapping[r2] =>
                  RLe(Score(df2, hidden_states, r2), Score(df2, hidden_states, r1))
        /\ \A i \in 1..Len(out_parquet.rows) :
              out_parquet.rows[i].regime = mapping[hidden_states[i]]

\* C6: in both backends, when the hard assignment holds fewer than K distinct
\* raw states, no regime output is ever written.
C6_Original ==
    Cardinality(Observed) < K => (out_parquet = None /\ out_trans = None)

\* C7: in the sequential backend the emitted transition matrix is the
\* smoothed raw matrix with rows and columns permuted by the inverse of the
\* canonical mapping, trans_regime[i][j] = trans_raw[inv[i]][inv[j]], and it
\* is row-stochastic with every entry strictly positive.
C7_TransitionPermuted ==
    (rg_pc = "written" /\ backend = "hmm") =>
        LET inv == [c \in States |-> CHOOSE o \in DOMAIN mapping : mapping[o] = c]
        IN \A i \in States :
              /\ \A j \in States :
                    /\ out_trans.matrix[i][j] = hmm.transmat_[inv[i]][inv[j]]
                    /\ out_trans.matrix[i][j].n > 0 /\ out_trans.matrix[i][j].d > 0
              /\ RSum(out_trans.matrix[i], States) = ROne

\* C7 witness: a transition matrix has been written under a mapping that is
\* not the identity, for a raw matrix that is not the same in every row.
C7_Witness ==
    /\ rg_pc = "written" /\ backend = "hmm"
    /\ \E r \in States : mapping[r] # r
    /\ \E i, j \in States : hmm.transmat_[i] # hmm.transmat_[j]

C11_Original ==
    ft_pc = "done" /\ "d1_pct" \in DOMAIN ft_cols =>
        \A t \in 1..Len(ft_s) :
            /\ ft_cols.d1_pct[t] =
                  IF t <= 1 \/ ft_s[t - 1] = 0 THEN FNaN
                  ELSE FNum(Rat(ft_s[t] - ft_s[t - 1], ft_s[t - 1]))
            /\ ft_cols.w1_pct[t] =
                  IF t <= 7 THEN FNaN
                  ELSE IF ft_s[t - 7] = 0 THEN FNaN
                  ELSE FNum(Rat(ft_s[t] - ft_s[t - 7], ft_s[t - 7]))

\* the window of row t has all its w values
FullWindow(s, t, w) == t >= w /\ \A j \in (t - w + 1)..t : s[j] # NaN
\* the mean of x[t-w+1..t]
MeanOf(s, t, w) == Rat(IntSum([j \in (t - w + 1)..t |-> s[j]], (t - w + 1)..t), w)
\* the population variance of x[t-w+1..t]: mean of squares minus square of mean
PopVarOf(s, t, w) ==
    RSub(Rat(IntSum([j \in (t - w + 1)..t |-> s[j] * s[j]], (t - w + 1)..t), w),
         RMul(MeanOf(s, t, w), MeanOf(s, t, w)))

\* C12: the rolling z-score of window w is defined at row t exactly when the
\* window x[t-w+1..t] is complete, every value in it is present and its
\* population standard deviation is nonzero; then it equals
\* (x[t] - mean) / population stddev; a constant window gives a missing value.
C12_RollingZscore ==
    ft_pc = "done" /\ "z" \in DOMAIN ft_cols =>
        \A w \in Windows : \A t \in 1..Len(ft_s) :
            LET z == ft_cols.z[w][t]
            IN IF FullWindow(ft_s, t, w) /\ PopVarOf(ft_s, t, w) # RZero
               THEN LET dev == RSub(Rat(ft_s[t], 1), MeanOf(ft_s, t, w))
                    IN /\ z.kind = "root"
                       /\ z.sq = RDiv(RMul(dev, dev), PopVarOf(ft_s, t, w))
                       /\ z.sign = (IF dev.n > 0 THEN 1 ELSE IF dev.n < 0 THEN -1 ELSE 0)
               ELSE z = FNaN

\* C12 witness: a z-score is defined at one row and missing, for a constant
\* window, at another row past the first w-1 rows.
C12_Witness ==
    /\ ft_pc = "done" /\ "z" \in DOMAIN ft_cols
    /\ \E w \in Windows : \E t, u \in w..Len(ft_s) :
          /\ ft_cols.z[w][t].kind = "root" /\ ft_cols.z[w][t].sign # 0
          /\ FullWindow(ft_s, u, w) /\ ft_cols.z[w][u] = FNaN

\* C13: the rolling percentile rank of window w is missing at the first w-1
\* rows; where the window is complete it lies in [0,1] and equals the average
\* rank of x[t] among x[t-w+1..t] divided by w; on a strictly increasing
\* column it is exactly 1 at every row from w-1 on.
C13_RollingPctRank ==
    ft_pc = "done" /\ "pct" \in DOMAIN ft_cols =>
        \A w \in Windows : \A t \in 1..Len(ft_s) :
            LET p == ft_cols.pct[w][t]
                win == (t - w + 1)..t
                less == Cardinality({j \in win : ft_s[j] < ft_s[t]})
                ties == Cardinality({j \in win : ft_s[j] = ft_s[t]})
            IN /\ t < w => p = FNaN
               /\ FullWindow(ft_s, t, w) =>
                     /\ p = FNum(Rat(2 * less + ties + 1, 2 * w))
                     /\ RLe(RZero, p.v) /\ RLe(p.v, ROne)
               /\ (FullWindow(ft_s, t, w) /\ \A j \in win : j < t => ft_s[j] < ft_s[j + 1])
                     => p = FNum(ROne)

\* C13 witness: a window in which the current value is tied with an earlier
\* one, and a strictly increasing window.
C13_Witness ==
    /\ ft_pc = "done" /\ "pct" \in DOMAIN ft_cols
    /\ \E w \in Windows : \E t, u \in w..Len(ft_s) :
          /\ FullWindow(ft_s, t, w) /\ \E j \in (t - w + 1)..(t - 1) : ft_s[j] = ft_s[t]
          /\ FullWindow(ft_s, u, w) /\ \A j \in (u - w + 1)..(u - 1) : ft_s[j] < ft_s[j + 1]

\* C14: no lookahead: two input columns that agree on rows 0..i give the same
\* rolling z-score and the same rolling percentile rank, for every window, at
\* every row up to i, whatever their later rows are.
C14_NoLookahead ==
    ft_pc = "done" /\ "z" \in DOMAIN ft_cols =>
        \A i \in 1..Len(ft_s) :
            (\A j \in 1..i : ft_s[j] = ft_s2[j]) =>
                \A w \in Windows : \A t \in 1..i :
                    /\ ft_cols.z[w][t] = ft_cols2.z[w][t]
                    /\ ft_cols.pct[w][t] = ft_cols2.pct[w][t]

\* C14 witness: two columns that agree on a complete window and differ on a
\* later row have been processed.
C14_Witness ==
    /\ ft_pc = "done" /\ "z" \in DOMAIN ft_cols
    /\ \E w \in Windows : \E i \in w..(Len(ft_s) - 1) :
          /\ \A j \in 1..i : ft_s[j] = ft_s2[j]
          /\ ft_s[i + 1] # ft_s2[i + 1]
          /\ ft_cols.z[w][i].kind = "root"

\* the FeatureTable rows whose selected features are all present
GoodRows == {i \in 1..Len(gli_master) :
                gli_master[i].netliq_z252 # NaN /\ gli_master[i].gcb_z252 # NaN}

\* C15: the RegimeAssignment either backend writes has exactly one row, in
\* chronological order, for each FeatureTable row whose selected features are
\* all present, and no row of another timestamp; the FeatureTable keeps its
\* rows with missing features.
C15_MaskedRows ==
    rg_pc = "written" =>
        LET rows == out_parquet.rows
        IN /\ Len(rows) = Cardinality(GoodRows)
           /\ \A i \in GoodRows : \E k \in 1..Len(rows) : rows[k].date = gli_master[i].date
           /\ \A k \in 1..Len(rows) : \E i \in GoodRows : rows[k].date = gli_master[i].date
           /\ \A k \in 1..(Len(rows) - 1) : rows[k].date < rows[k + 1].date

\* C15 witness: an assignment was written from a FeatureTable that holds,
\* before its last row, a row with exactly one feature missing.
C15_Witness ==
    /\ rg_pc = "written"
    /\ \E i \in 1..(Len(gli_master) - 1) :
          (gli_master[i].netliq_z252 = NaN) # (gli_master[i].gcb_z252 = NaN)

\* C16: when the FeatureTable has no rows, each regime-inference backend
\* ends normally and writes an empty RegimeAssignment; it never raises.
C16_Original ==
    (gli_master = <<>> /\ rg_pc \notin {"start", "masked"}) =>
        (rg_pc = "written" /\ out_parquet # None /\ out_parquet.rows = <<>>)

\* ======================================================================
\* Claims about the Series Normalizer on one file, the unit multiplier and
\* the currency conversion
\* ======================================================================
\* C17: a raw series without the 'date' or the 'value' column is rejected at
\* once with a fatal error that names the file and the columns found; no frame
\* is returned and main() does not go on to produce output from it.
C17_RejectMissingColumns ==
    /\ ("date" \notin rd_columns \/ "value" \notin rd_columns) =>
          /\ rd_pc \in {"idle", "start", "exit"}
          /\ rd_frame = None
    /\ rd_pc = "exit" =>
          /\ rd_exit # None
          /\ rd_exit.path = rd_path
          /\ rd_exit.columns = rd_columns
          /\ "date" \notin rd_columns \/ "value" \notin rd_columns

\* C17 witness: a file that has the 'date' column but no 'value' column, and
\* rows, has been rejected.
C17_Witness ==
    /\ rd_pc = "exit"
    /\ "date" \in rd_columns /\ "value" \notin rd_columns
    /\ rd_rows # <<>>

\* C18: a raw series with the required columns whose every row fails the
\* conversion is a fatal error for that series: the Normalizer does not return
\* an empty frame and main() does not continue into the alignment.
C18_Original ==
    (/\ rd_pc \notin {"idle", "start"}
     /\ "date" \in rd_columns /\ "value" \in rd_columns
     /\ rd_rows # <<>>
     /\ \A i \in 1..Len(rd_rows) : rd_rows[i].date = Garbage \/ rd_rows[i].value = Garbage)
        => (rd_pc = "exit" /\ rd_frame = None)

\* the units string names the keyword, in any spelling
Names(keyword) ==
    /\ un_units # None
    /\ \E i \in 1..Len(un_units.str) : lower_word(un_units.str[i]) = keyword

\* C19: the multiplier is 1000 for units containing 'billions', 1 for
\* 'millions', 0.001 for 'thousands' (case-insensitive, in this order of
\* precedence); whenever the units are not recognized, an unknown string or no
\* metadata at all, the multiplier is 1 and a warning is printed.
C19_Original ==
    un_pc = "returned" =>
        IF Names("billions") THEN un_mult = Rat(1000, 1)
        ELSE IF Names("millions") THEN un_mult = Rat(1, 1)
        ELSE IF Names("thousands") THEN un_mult = Rat(1, 1000)
        ELSE un_mult = Rat(1, 1) /\ un_stdout # <<>>

\* the latest value of column c observed at or before timestamp t
LatestFx(c, t) ==
    LET f == fx_bronze[c]
        seen == {i \in 1..Len(f) : f[i].date <= t}
        last == CHOOSE i \in seen : \A j \in seen : f[j].date <= f[i].date
    IN f[last].value

\* C20: at every aligned row, boj_usd_millions = boj_100m_yen * 100 /
\* jpy_per_usd, ecb_usd_millions = ecb_eur_millions * usd_per_eur and
\* global_cb_assets_usd_millions = fed + ecb_usd + boj_usd, each input being
\* the latest value observed at or before the row's timestamp.
C20_CurrencyConversion ==
    fx_pc = "done" =>
        \A i \in 1..Len(fx_df) :
            LET t == fx_df[i].date
                boj == Rat(LatestFx("boj_100m_yen", t) * 100, LatestFx("jpy_per_usd", t))
                ecb == Rat(LatestFx("ecb_eur_millions", t) * LatestFx("usd_per_eur", t), 1)
            IN /\ fx_df[i].boj_usd_millions = boj
               /\ fx_df[i].ecb_usd_millions = ecb
               /\ fx_df[i].global_cb_assets_usd_millions =
                     RAdd(RAdd(Rat(LatestFx("fed_usd_millions", t), 1), ecb), boj)

\* C20 witness: a converted row at a timestamp without an FX observation of
\* its own, after both rates had been observed earlier.
C20_Witness ==
    /\ fx_pc = "done"
    /\ \E i \in 1..Len(fx_df) :
          /\ \A k \in 1..Len(fx_bronze["jpy_per_usd"]) :
                fx_bronze["jpy_per_usd"][k].date < fx_df[i].date
          /\ \A k \in 1..Len(fx_bronze["usd_per_eur"]) :
                fx_bronze["usd_per_eur"][k].date < fx_df[i].date

\* ======================================================================
\* Claims about the master-feature stage, the weekly orchestrator and the
\* incremental ingestion
\* ======================================================================
\* C21 (as stated): in the FeatureTable written, the lag-1 and lag-7 difference
\* columns are differences over the row sequence of the FeatureTable itself,
\* even when the two joined tables do not have the same dates.
C21_Original ==
    ms_pc = "written" =>
        LET g == ms_out.rows
        IN \A i \in 1..Len(g) :
              /\ i > 1 =>
                    /\ g[i].net_liquidity_usa_millions_d1 =
                          g[i].net_liquidity_usa_millions - g[i - 1].net_liquidity_usa_millions
                    /\ g[i].global_cb_assets_usd_d1 =
                          g[i].global_cb_assets_usd_millions
                              - g[i - 1].global_cb_assets_usd_millions
              /\ i > 7 =>
                    /\ g[i].net_liquidity_usa_millions_w1 =
                          g[i].net_liquidity_usa_millions - g[i - 7].net_liquidity_usa_millions
                    /\ g[i].global_cb_assets_usd_w1 =
                          g[i].global_cb_assets_usd_millions
                              - g[i - 7].global_cb_assets_usd_millions

\* The stages are started in the listed order, a stage is started only after
\* every earlier stage has returned 0, no stage is started after a nonzero
\* return code, and the success message needs six return codes of 0.
OrderedStopOnFailure ==
    /\ Len(wk_started) <= Len(PIPELINE)
    /\ wk_started = SubSeq(PIPELINE, 1, Len(wk_started))
    /\ Len(wk_codes) \in {Len(wk_started), Len(wk_started) - 1}
    /\ \A i \in 1..Len(wk_codes) : i < Len(wk_started) => wk_codes[i] = 0
    /\ \A i \in 1..Len(wk_codes) :
          wk_codes[i] # 0 => i = Len(wk_started) /\ wk_pc \in {"returned", "exit"}
    /\ wk_pc = "exit" => wk_codes[Len(wk_codes)] # 0
    /\ wk_stdout => Len(wk_codes) = Len(PIPELINE) /\ \A i \in 1..Len(wk_codes) : wk_codes[i] = 0
    /\ wk_pc \in {"loop", "done"} => wk_exit = None

\* C22 (as stated): the orchestrator starts the stages strictly in the listed
\* order, starts a stage only after every earlier stage returned 0, and on the
\* first nonzero return code starts no later stage and exits with that same
\* code; the success message is printed only if all stages returned 0.
C22_Original ==
    /\ OrderedStopOnFailure
    /\ wk_pc = "exit" => wk_exit.status = wk_codes[Len(wk_codes)]

\* C22 (amended): the orchestrator starts the stages strictly in the listed
\* order, starts a stage only after every earlier stage returned 0, and on the
\* first nonzero return code starts no later stage and exits with a nonzero
\* status: that same code when it is in 1..255, and the code modulo 256 (256
\* minus the signal number) when the stage was killed by a signal; the success
\* message is printed only if all stages returned 0.
C22_Amended ==
    /\ OrderedStopOnFailure
    /\ wk_pc = "exit" =>
          LET code == wk_codes[Len(wk_codes)]
          IN /\ wk_exit.code = code
             /\ wk_exit.status # 0
             /\ code \in 1..255 => wk_exit.status = code
             /\ code < 0 => wk_exit.status = 256 + code

\* C22 witness: the orchestrator has exited on a failure of the fourth stage,
\* after three stages that returned 0.
C22_Witness ==
    /\ wk_pc = "exit"
    /\ Len(wk_started) = 4
    /\ wk_codes[4] > 0
    /\ wk_exit.status = wk_codes[4]

\* the dates of a series file, of a fetch
FileDates(file) ==
    IF file = None THEN {} ELSE {file.rows[i].date : i \in 1..Len(file.rows)}

\* the rows of a series file, of a fetch, at date d
RowsAt(file, d) ==
    IF file = None THEN {} ELSE {file.rows[i] : i \in {k \in 1..Len(file.rows) : file.rows[k].date = d}}

\* C23: after any sequence of incremental ingestion runs the series file has
\* no two rows of the same (date, series_id), is sorted by date and holds every
\* date stored before; a run that fetched nothing leaves the file unchanged and
\* a run with new rows stores the union of the old and new rows, the newly
\* fetched row kept at a date present in both; the watermark never decreases.
C23_IncrementalIngest ==
    /\ ig_file # None =>
          \A i \in 1..Len(ig_file.rows) : \A j \in 1..Len(ig_file.rows) :
              i < j => ig_file.rows[i].date < ig_file.rows[j].date
    /\ FileDates(ig_prev) \subseteq FileDates(ig_file)
    /\ ig_pc = "loop" =>
          /\ FileDates(ig_new) = {} => ig_file = ig_prev
          /\ FileDates(ig_file) = FileDates(ig_prev) \cup FileDates(ig_new)
          /\ \A d \in FileDates(ig_file) :
                RowsAt(ig_file, d) \subseteq
                    (IF d \in FileDates(ig_new) THEN RowsAt(ig_new, d) ELSE RowsAt(ig_prev, d))
    /\ _max_date_in_parquet(ig_prev) # None =>
          /\ _max_date_in_parquet(ig_file) # None
          /\ _max_date_in_parquet(ig_file).date >= _max_date_in_parquet(ig_prev).date
          /\ ig_pc = "fetched" => ig_start = [date |-> _max_date_in_parquet(ig_prev).date + 1]

\* C23 witness: a second run has stored rows, one of them at a date the file
\* already held from the first run, and the newly fetched row is the one kept.
C23_Witness ==
    /\ ig_pc = "loop"
    /\ ig_runs = 2
    /\ ig_new # None
    /\ \E d \in FileDates(ig_new) \cap FileDates(ig_prev) :
          /\ RowsAt(ig_prev, d) = {IngestRow(d, 1)}
          /\ RowsAt(ig_file, d) = {IngestRow(d, 2)}
    /\ FileDates(ig_prev) \ FileDates(ig_new) # {}

=============================================================================
